---------------------------- MODULE Spec2Model ----------------------------
(***************************************************************************)
(* A model of captest (src/src/main.rs and src/src/platforms): one process *)
(* invocation of one of the four commands list, list-windows, capture and  *)
(* capture-window, stepping through the calls the command makes into the   *)
(* capture engine (scap), the image codec and the platform windowing API.  *)
(* The pure conversions bgra_to_rgb8 and rgb8_to_jpeg_bytes are operators; *)
(* SpecPure applies them to every input within bounds.                     *)
(***************************************************************************)
EXTENDS Integers, Sequences, FiniteSets, TLC

\* ------------------------------------------------------------------ bounds
\* Most targets the capture engine lists in one snapshot.
MaxTargets == 3
\* Longest byte buffer: of a frame the engine delivers, and of the inputs
\* given to the pure conversions.
MaxBufLen == 8
\* Largest declared frame width and height.
MaxDim == 2
\* Most records the platform windowing API walks in one listing.
MaxNative == 2

\* ------------------------------------------------------------- value sets
Kinds == {"Display", "Window"}
Platforms == {"linux", "mac", "windows"}
\* Byte values used by the pure conversions' inputs.
Byte == {0, 255}
\* The constant colour of the frames the engine delivers to a command:
\* channel bytes B, G, R, A in buffer order.
FillBGRA == <<10, 20, 30, 255>>

\* Option<T> is a sequence of length at most one.
None == <<>>
Some(x) == <<x>>
IsSome(o) == Len(o) = 1
Unwrap(o) == o[1]

\* File names are sequences of tokens; an extension is one token.
OutputNames == {<<"shot">>, <<"shot", ".png">>}

RECURSIVE SeqsUpTo(_, _)
SeqsUpTo(S, n) ==
    IF n = 0 THEN {<<>>}
    ELSE LET shorter == SeqsUpTo(S, n - 1)
         IN  shorter \cup {Append(s, x) : s \in {t \in shorter : Len(t) = n - 1}, x \in S}

\* The opaque platform id of the target at position p of the engine's list.
\* Ids are distinct; which id a target has is immaterial up to renaming, so
\* one injective assignment is explored. No id equals a list index.
IdAt(p) == 100 + p
\* Target lists the engine can return: Display and Window elements in any
\* interleaving, each with its own platform id.
TargetLists ==
    UNION {{[p \in 1..n |-> [kind |-> ks[p], id |-> IdAt(p)]] : ks \in [1..n -> Kinds]} :
              n \in 0..MaxTargets}

\* ------------------------------------------------------ the pure functions
\* usize::saturating_sub
SaturatingSub(a, b) == IF a >= b THEN a - b ELSE 0

\* slice::chunks_exact(4): the whole 4-byte groups; a remainder is left out.
ChunksExact4(data) ==
    [c \in 1..(Len(data) \div 4) |-> SubSeq(data, 4 * c - 3, 4 * c)]

\* The three bytes pushed for one chunk, without the swap of B and R.
PushChunkNoSwap(chunk) == <<chunk[1], chunk[2], chunk[3]>>
\* The three bytes pushed for one chunk: chunk[2], chunk[1], chunk[0] (0-based).
PushChunk(chunk) == <<chunk[3], chunk[2], chunk[1]>>

RECURSIVE PushAll(_, _)
PushAll(chunks, c) ==
    IF c > Len(chunks) THEN <<>>
    ELSE PushChunk(chunks[c]) \o PushAll(chunks, c + 1)

\* bgra_to_rgb8: (width, height, rgb_data); it has no failure result.
bgra_to_rgb8(bgra_frame) ==
    [width  |-> bgra_frame.width,
     height |-> bgra_frame.height,
     data   |-> PushAll(ChunksExact4(bgra_frame.data), 1)]

\* ImageBuffer::from_raw(width, height, buf): None when buf is too small for
\* width*height RGB pixels, Some when it is large enough (a larger buffer is
\* accepted as it is).
FromRaw(width, height, len) == width * height * 3 <= len

\* The outcomes of rgb8_to_jpeg_bytes. from_raw failing is the Err of line 241.
\* With a buffer longer than width*height*3 the encoder is handed the whole
\* container: image releases without the encoder's length assertion encode
\* the leading width*height pixels ("Ok"), releases with it panic ("Panic").
EncodeOutcomes(width, height, len) ==
    IF ~FromRaw(width, height, len) THEN {"Err"}
    ELSE IF len = width * height * 3 THEN {"Ok"}
    ELSE {"Ok", "Panic"}

\* The result of rgb8_to_jpeg_bytes for one outcome: the encoded image is
\* kept abstract as the pixels the encoder read.
\* The extension of the container format rgb8_to_jpeg_bytes produces
\* (JpegEncoder).
ContainerExtension == ".jpg"

rgb8_to_jpeg_bytes(width, height, rgb_data, outcome) ==
    [status |-> outcome,
     width  |-> IF outcome = "Ok" THEN width ELSE 0,
     height |-> IF outcome = "Ok" THEN height ELSE 0,
     pixels |-> IF outcome = "Ok" THEN SubSeq(rgb_data, 1, width * height * 3) ELSE <<>>]

NoJpeg == [status |-> "None", width |-> 0, height |-> 0, pixels |-> <<>>]


\* ------------------------------------------------------------------- state
VARIABLES
    pc,               \* the position of the running command
    command,          \* Commands: "list", "list-windows", "capture", "capture-window"
    platform,         \* the list_windows backend the build links
    index,            \* Capture.screen / CaptureWindow.window
    output_filename,  \* Option<name>: --output
    analyze,          \* --analyze
    ocr,              \* --ocr
    engineTargets,    \* the engine's snapshot: what get_all_targets returns
    supported,        \* the result of is_supported(): "unchecked", "yes", "no"
    permitted,        \* the result of the first has_permission()
    enumerated,       \* get_all_targets was called
    targets,          \* the local targets
    listing,          \* the lines list / list-windows (linux) print: [index, id]
    scap_indices,     \* mac, windows: the map window id -> index
    rows,             \* mac, windows: the rows printed: [id, idx], idx an Option
    native,           \* mac, windows: Option<the record the walk is at>
    seen_ids,         \* mac, windows: the native ids walked so far
    total_count,      \* mac: count; windows: data.total_count
    shown_count,      \* shown_count
    reported,         \* Option<[requested, lo, hi]>: the range an index error names
    target,           \* Option<the target resolved from index>
    capturerBuilt,    \* Capturer::build returned a capturer
    engineRunning,    \* start_capture was called and no stop_capture since
    engineDelivers,   \* whether the engine ever sends a frame or an error
    filename,         \* Option<name>: the local filename
    frame,            \* what get_next_frame returned
    rgb,              \* Option<(width, height, rgb_data)>
    jpeg,             \* the result of rgb8_to_jpeg_bytes
    saved,            \* Option<[name, bytes]>: the file written
    save_result,      \* "none", "Ok", "Err": save_jpeg_bytes
    analysis,         \* "none", "Ok", "Err": analyze_image_with_llm_base64
    ocr_result,       \* "none", "Ok", "Err": extract_text_with_ocr
    result            \* "running", "Ok", "Err", "exit1", "panic"

cliVars == <<command, platform, index, output_filename, analyze, ocr>>
gateVars == <<supported, permitted, enumerated, targets>>
listVars == <<listing, scap_indices, rows, native, seen_ids, total_count, shown_count>>
captureVars == <<reported, target, capturerBuilt, engineRunning, engineDelivers, filename>>
frameVars == <<frame, rgb, jpeg>>
stepVars == <<saved, save_result, analysis, ocr_result>>
vars == <<pc, cliVars, engineTargets, gateVars, listVars, captureVars, frameVars,
          stepVars, result>>

CaptureCommands == {"capture", "capture-window"}
\* The kind a command lists or captures.
KindOf(c) == IF c \in {"list", "capture"} THEN "Display" ELSE "Window"

NoFrame == [tag |-> "None", width |-> 0, height |-> 0, data |-> <<>>]

\* The process's exit status, once the command has ended: main returning Ok is
\* 0, main returning Err and process::exit(1) are 1, a panic is 101.
ExitStatus(r) ==
    CASE r = "Ok" -> 0
      [] r = "Err" -> 1
      [] r = "exit1" -> 1
      [] r = "panic" -> 101
      [] OTHER -> -1

\* What is the same in every initial state: nothing has run yet.
Fresh ==
    /\ supported = "unchecked" /\ permitted = "unchecked"
    /\ enumerated = FALSE /\ targets = <<>>
    /\ listing = <<>> /\ scap_indices = <<>> /\ rows = <<>> /\ native = None
    /\ seen_ids = {} /\ total_count = 0 /\ shown_count = 0
    /\ reported = None /\ target = None
    /\ capturerBuilt = FALSE /\ engineRunning = FALSE /\ engineDelivers = FALSE
    /\ filename = None
    /\ jpeg = NoJpeg
    /\ saved = None /\ save_result = "none" /\ analysis = "none" /\ ocr_result = "none"
    /\ result = "running"

\* Cli::parse: the command and its arguments (List and ListWindows have none),
\* and the engine's snapshot. cfg(target_os) selects only which list_windows
\* is linked, so the other commands are explored for one build.
Init ==
    /\ pc = "is_supported"
    /\ command \in {"list", "list-windows", "capture", "capture-window"}
    /\ platform \in (IF command = "list-windows" THEN Platforms ELSE {"linux"})
    /\ engineTargets \in TargetLists
    /\ IF command \in CaptureCommands
       THEN /\ index \in 0..MaxTargets
            /\ output_filename \in {None} \cup {Some(n) : n \in OutputNames}
            /\ analyze \in BOOLEAN
            /\ ocr \in BOOLEAN
       ELSE /\ index = 0
            /\ output_filename = None
            /\ analyze = FALSE
            /\ ocr = FALSE
    /\ frame = NoFrame
    /\ rgb = None
    /\ Fresh

\* The command ends with result r.
Return(r) == pc' = "done" /\ result' = r

\* ------------------------------------------------------------ the commands
\* if !scap::is_supported() { ...; return Ok(()) }. The mac and windows
\* list_windows go on to the native walk without the engine's indices.
is_supported ==
    /\ pc = "is_supported"
    /\ \E b \in BOOLEAN :
        /\ supported' = (IF b THEN "yes" ELSE "no")
        /\ IF b
           THEN /\ pc' = (IF command \in CaptureCommands THEN "has_permission"
                          ELSE "get_all_targets")
                /\ UNCHANGED result
           ELSE IF command = "list-windows" /\ platform # "linux"
           THEN pc' = "native" /\ UNCHANGED result
           ELSE Return("Ok")
    /\ UNCHANGED <<cliVars, engineTargets, permitted, enumerated, targets, listVars,
                   captureVars, frameVars, stepVars>>

\* capture, capture-window: if !scap::has_permission() { request_permission();
\* ...; return Ok(()) }
has_permission ==
    /\ pc = "has_permission"
    /\ \E b \in BOOLEAN :
        /\ permitted' = (IF b THEN "yes" ELSE "no")
        /\ IF b THEN pc' = "get_all_targets" /\ UNCHANGED result
           ELSE Return("Ok")
    /\ UNCHANGED <<cliVars, engineTargets, supported, enumerated, targets, listVars,
                   captureVars, frameVars, stepVars>>

\* let targets = scap::get_all_targets();
get_all_targets ==
    /\ pc = "get_all_targets"
    /\ targets' = engineTargets
    /\ enumerated' = TRUE
    /\ pc' = (CASE command \in CaptureCommands -> "resolve"
                [] command = "list-windows" /\ platform # "linux" -> "scap_indices"
                [] OTHER -> "list")
    /\ UNCHANGED <<cliVars, engineTargets, supported, permitted, listVars, captureVars,
                   frameVars, stepVars, result>>

\* The loop of list_screens and of the linux list_windows: one line per
\* element of the kind, numbered by a counter that starts at 0 and is
\* incremented after each line.
\* ListLoop with one counter shared by both kinds: it is incremented for
\* every element, of the kind or not.
RECURSIVE ListLoopSharedCounter(_, _, _)
ListLoopSharedCounter(ts, kind, next_index) ==
    IF ts = <<>> THEN <<>>
    ELSE IF Head(ts).kind = kind
         THEN <<[index |-> next_index, id |-> Head(ts).id]>>
              \o ListLoopSharedCounter(Tail(ts), kind, next_index + 1)
         ELSE ListLoopSharedCounter(Tail(ts), kind, next_index + 1)
RECURSIVE ListLoop(_, _, _)
ListLoop(ts, kind, next_index) ==
    IF ts = <<>> THEN <<>>
    ELSE IF Head(ts).kind = kind
         THEN <<[index |-> next_index, id |-> Head(ts).id]>>
              \o ListLoop(Tail(ts), kind, next_index + 1)
         ELSE ListLoop(Tail(ts), kind, next_index)

\* HashMap::insert
Insert(map, key, value) ==
    [k \in DOMAIN map \cup {key} |-> IF k = key THEN value ELSE map[k]]

\* The loop of the mac and windows list_windows: scap_indices.insert(window.id,
\* window_index) for each Window element, window_index incremented after it.
RECURSIVE ScapIndicesLoop(_, _, _)
ScapIndicesLoop(ts, window_index, map) ==
    IF ts = <<>> THEN map
    ELSE IF Head(ts).kind = "Window"
         THEN ScapIndicesLoop(Tail(ts), window_index + 1,
                              Insert(map, Head(ts).id, window_index))
         ELSE ScapIndicesLoop(Tail(ts), window_index, map)

\* list: list_screens' loop; list-windows on linux: list_windows' loop.
list ==
    /\ pc = "list"
    /\ listing' = ListLoop(targets, KindOf(command), 0)
    /\ Return("Ok")
    /\ UNCHANGED <<cliVars, engineTargets, gateVars, scap_indices, rows, native,
                   seen_ids, total_count, shown_count, captureVars, frameVars, stepVars>>

\* list-windows on mac and windows: the engine's window indices by id.
build_scap_indices ==
    /\ pc = "scap_indices"
    /\ scap_indices' = ScapIndicesLoop(targets, 0, <<>>)
    /\ pc' = "native"
    /\ UNCHANGED <<cliVars, engineTargets, gateVars, listing, rows, native, seen_ids,
                   total_count, shown_count, captureVars, frameVars, stepVars, result>>

\* The records of the platform windowing API. An id is one the engine does
\* not list (IdAt(0)) or that of a target near the head of the engine's list.
\* The mac walk always has bounds (rect_ok); the windows walk reads no owner
\* name.
NativeIds == {IdAt(p) : p \in 0..MaxNative}
NativeSizes == {<<9, 60>>, <<10, 10>>, <<50, 50>>, <<60, 9>>}
NativeRecords ==
    [id : NativeIds, title : {"", "Doc"}, owner : {"", "Unknown", "Finder"},
     size : NativeSizes, rect_ok : {TRUE}]
    \cup [id : NativeIds, title : {"", "Doc"}, owner : {""},
          size : NativeSizes, rect_ok : BOOLEAN]
\* The records the linked backend can be handed.
BackendRecords(p) ==
    IF p = "mac" THEN {r \in NativeRecords : r.rect_ok}
    ELSE {r \in NativeRecords : r.owner = ""}

\* mac: has_meaningful_info.
has_meaningful_info(r) ==
    \/ r.title # ""
    \/ /\ r.owner # ""
       /\ r.owner # "Unknown"
       /\ (r.size[1] > 50 \/ r.size[2] > 50)

\* windows: enum_window_proc returns early for a window without a title, one
\* whose rect cannot be read, and one narrower or lower than 10.
enum_window_proc_shows(r) ==
    /\ r.title # ""
    /\ r.rect_ok
    /\ ~(r.size[1] < 10 \/ r.size[2] < 10)

\* Whether the backend prints a row for the record.
Shows(r) == IF platform = "mac" THEN has_meaningful_info(r) ELSE enum_window_proc_shows(r)

\* IndexStr with a lookup that never finds the id.
IndexStrNeverFound(map, id) == None
\* Idx of a row: the engine's index of the id, if it has one.
IndexStr(map, id) == IF id \in DOMAIN map THEN Some(map[id]) ELSE None

\* mac: one iteration of the loop over windows_array; windows: one call of
\* enum_window_proc. The windowing API lists each window once.
native_window ==
    /\ pc = "native"
    /\ total_count < MaxNative
    /\ \E r \in BackendRecords(platform) :
        /\ r.id \notin seen_ids
        /\ native' = Some(r)
        /\ seen_ids' = seen_ids \cup {r.id}
        /\ total_count' = total_count + 1
        /\ IF Shows(r)
           THEN /\ rows' = Append(rows, [id |-> r.id, idx |-> IndexStr(scap_indices, r.id)])
                /\ shown_count' = shown_count + 1
           ELSE UNCHANGED <<rows, shown_count>>
    /\ UNCHANGED <<pc, cliVars, engineTargets, gateVars, listing, scap_indices,
                   captureVars, frameVars, stepVars, result>>

\* The walk is over: the summary line, and Ok(()). On windows EnumWindows
\* itself can fail, which is returned as an Err before the summary.
native_end ==
    /\ pc = "native"
    /\ native' = None
    /\ \E walked \in (IF platform = "windows" THEN BOOLEAN ELSE {TRUE}) :
         Return(IF walked THEN "Ok" ELSE "Err")
    /\ UNCHANGED <<cliVars, engineTargets, gateVars, listing, scap_indices, rows,
                   seen_ids, total_count, shown_count, captureVars, frameVars, stepVars>>

\* KindTargets without the filter: every element, of the kind or not.
KindTargetsUnfiltered(ts, kind) == ts
\* targets.iter().filter_map(...): the elements of one kind, in engine order.
KindTargets(ts, kind) == SelectSeq(ts, LAMBDA t : t.kind = kind)

\* if window_index >= windows.len() / if screen_index >= displays.len()
OutOfRangeOffByOne(i, len) == i > len
OutOfRange(i, len) == i >= len

\* The range the index error prints: "0-{}" with len.saturating_sub(1).
ReportedRange(i, len) == [requested |-> i, lo |-> 0, hi |-> SaturatingSub(len, 1)]

\* The index check, then windows[window_index] / displays[screen_index]
\* (indexing past the end panics).
resolve_index ==
    /\ pc = "resolve"
    /\ LET of_kind == KindTargets(targets, KindOf(command))
       IN  IF OutOfRange(index, Len(of_kind))
           THEN /\ reported' = Some(ReportedRange(index, Len(of_kind)))
                /\ Return("exit1")
                /\ UNCHANGED target
           ELSE IF index + 1 \notin DOMAIN of_kind
           THEN /\ Return("panic")
                /\ UNCHANGED <<reported, target>>
           ELSE /\ target' = Some(of_kind[index + 1])
                /\ pc' = "recheck_permission"
                /\ UNCHANGED <<reported, result>>
    /\ UNCHANGED <<cliVars, engineTargets, gateVars, listVars, capturerBuilt,
                   engineRunning, engineDelivers, filename, frameVars, stepVars>>

\* "Check permissions first": the second has_permission(), whose failure is
\* an Err.
recheck_permission ==
    /\ pc = "recheck_permission"
    /\ \E b \in BOOLEAN :
        IF b THEN pc' = "build" /\ UNCHANGED result
        ELSE Return("Err")
    /\ UNCHANGED <<cliVars, engineTargets, gateVars, listVars, captureVars, frameVars,
                   stepVars>>

EndsWith(name, suffix) == Len(name) > 0 /\ name[Len(name)] = suffix

\* capture-window: let filename = output_filename; capture: ".png" is
\* appended to a name that does not end with it.
LocalFilename(c, output) ==
    IF c = "capture-window" \/ ~IsSome(output) THEN output
    ELSE IF EndsWith(Unwrap(output), ".png") THEN output
    ELSE Some(Append(Unwrap(output), ".png"))

\* Capturer::build(options).unwrap_or_else(|err| { ...; process::exit(1) }),
\* then the local filename.
build_capturer ==
    /\ pc = "build"
    /\ \E built \in BOOLEAN :
        IF built
        THEN /\ capturerBuilt' = TRUE
             /\ filename' = LocalFilename(command, output_filename)
             /\ pc' = "start_capture"
             /\ UNCHANGED result
        ELSE /\ Return("exit1")
             /\ UNCHANGED <<capturerBuilt, filename>>
    /\ UNCHANGED <<cliVars, engineTargets, gateVars, listVars, reported, target,
                   engineRunning, engineDelivers, frameVars, stepVars>>

\* capturer.start_capture(). Whether the engine will ever send anything is
\* the engine's.
start_capture ==
    /\ pc = "start_capture"
    /\ engineRunning' = TRUE
    /\ engineDelivers' \in BOOLEAN
    /\ pc' = "get_next_frame"
    /\ UNCHANGED <<cliVars, engineTargets, gateVars, listVars, reported, target,
                   capturerBuilt, filename, frameVars, stepVars, result>>

\* The byte buffer of a frame of constant colour FillBGRA.
FillData(n) == [i \in 1..n |-> FillBGRA[((i - 1) % 4) + 1]]

OtherVideoTags == {"YUVFrame", "BGR0", "RGB", "RGBx", "XBGR", "BGRx"}
\* What get_next_frame can return: a BGRA frame (its declared size and its
\* buffer are the engine's), a video frame of another variant, an audio
\* frame, or an error.
EngineFrames ==
    {[tag |-> "BGRA", width |-> w, height |-> h, data |-> FillData(n)] :
        w \in 1..MaxDim, h \in 1..MaxDim, n \in 0..MaxBufLen}
    \cup {[tag |-> t, width |-> 0, height |-> 0, data |-> <<>>] :
            t \in OtherVideoTags \cup {"Audio", "Err"}}

\* match capturer.get_next_frame(): the call blocks until the engine sends a
\* frame or an error; it takes no timeout. Err(e) returns Err; a BGRA frame
\* is converted; any other frame is only printed.
get_next_frame ==
    /\ pc = "get_next_frame"
    /\ engineDelivers
    /\ \E f \in EngineFrames :
        /\ frame' = f
        /\ CASE f.tag = "Err" -> Return("Err")
             [] f.tag = "BGRA" -> pc' = "convert" /\ UNCHANGED result
             [] OTHER -> pc' = "finish" /\ UNCHANGED result
    /\ UNCHANGED <<cliVars, engineTargets, gateVars, listVars, captureVars, rgb, jpeg,
                   stepVars>>

\* let (width, height, rgb_data) = bgra_to_rgb8(&bgra_frame); let jpeg_bytes =
\* match rgb8_to_jpeg_bytes(...) { Ok(bytes) => bytes, Err(e) => return Err(e) }
convert ==
    /\ pc = "convert"
    /\ LET image == bgra_to_rgb8(frame)
       IN  /\ rgb' = Some(image)
           /\ \E o \in EncodeOutcomes(image.width, image.height, Len(image.data)) :
                /\ jpeg' = rgb8_to_jpeg_bytes(image.width, image.height, image.data, o)
                /\ CASE o = "Ok" -> pc' = "save" /\ UNCHANGED result
                     [] o = "Err" -> Return("Err")
                     [] OTHER -> Return("panic")
    /\ UNCHANGED <<cliVars, engineTargets, gateVars, listVars, captureVars, frame,
                   stepVars>>

\* if let Some(ref filename) = filename { match save_jpeg_bytes(...) }: a
\* failure to write is printed and the command goes on.
save ==
    /\ pc = "save"
    /\ IF IsSome(filename)
       THEN \E written \in BOOLEAN :
               /\ save_result' = (IF written THEN "Ok" ELSE "Err")
               /\ saved' = (IF written THEN Some([name |-> Unwrap(filename), bytes |-> jpeg])
                            ELSE None)
       ELSE UNCHANGED <<saved, save_result>>
    /\ pc' = "analyze"
    /\ UNCHANGED <<cliVars, engineTargets, gateVars, listVars, captureVars, frameVars,
                   analysis, ocr_result, result>>

\* analyze_step with the analysis' error propagated (as with `?`) instead of
\* printed.
analyze_step_propagating ==
    /\ pc = "analyze"
    /\ IF analyze
       THEN \E ok \in BOOLEAN :
               /\ analysis' = (IF ok THEN "Ok" ELSE "Err")
               /\ IF ok THEN pc' = "ocr" /\ UNCHANGED result ELSE Return("Err")
       ELSE UNCHANGED <<analysis, result>> /\ pc' = "ocr"
    /\ UNCHANGED <<cliVars, engineTargets, gateVars, listVars, captureVars, frameVars,
                   saved, save_result, ocr_result>>

\* if analyze { match analyze_image_with_llm_base64(...).await }
analyze_step ==
    /\ pc = "analyze"
    /\ IF analyze
       THEN \E ok \in BOOLEAN : analysis' = (IF ok THEN "Ok" ELSE "Err")
       ELSE UNCHANGED analysis
    /\ pc' = "ocr"
    /\ UNCHANGED <<cliVars, engineTargets, gateVars, listVars, captureVars, frameVars,
                   saved, save_result, ocr_result, result>>

\* if ocr { match extract_text_with_ocr(...).await }
ocr_step ==
    /\ pc = "ocr"
    /\ IF ocr
       THEN \E ok \in BOOLEAN : ocr_result' = (IF ok THEN "Ok" ELSE "Err")
       ELSE UNCHANGED ocr_result
    /\ pc' = "finish"
    /\ UNCHANGED <<cliVars, engineTargets, gateVars, listVars, captureVars, frameVars,
                   saved, save_result, analysis, result>>

\* println!("Frame captured successfully!"); Ok(()). No path of the capture
\* commands calls capturer.stop_capture().
finish ==
    /\ pc = "finish"
    /\ Return("Ok")
    /\ UNCHANGED <<cliVars, engineTargets, gateVars, listVars, captureVars, frameVars,
                   stepVars>>

Next ==
    \/ is_supported
    \/ has_permission
    \/ get_all_targets
    \/ list
    \/ build_scap_indices
    \/ native_window
    \/ native_end
    \/ resolve_index
    \/ recheck_permission
    \/ build_capturer
    \/ start_capture
    \/ get_next_frame
    \/ convert
    \/ save
    \/ analyze_step
    \/ ocr_step
    \/ finish

Spec == Init /\ [][Next]_vars

\* ------------------------------------------- the conversions on their own
\* The inputs of the pure conversions: every BGRA frame and every RGB image
\* with a declared size up to MaxDim x MaxDim and a buffer of up to MaxBufLen
\* bytes, whether or not the buffer fits the size.
PureBuffers == SeqsUpTo(Byte, MaxBufLen)
PureFrames ==
    {[tag |-> "BGRA", width |-> w, height |-> h, data |-> d] :
        w \in 1..MaxDim, h \in 1..MaxDim, d \in PureBuffers}
PureImages ==
    {[width |-> w, height |-> h, data |-> d] :
        w \in 1..MaxDim, h \in 1..MaxDim, d \in PureBuffers}

InitPure ==
    /\ pc \in {"normalize", "encode"}
    /\ command = "capture" /\ platform = "linux" /\ index = 0
    /\ output_filename = None /\ analyze = FALSE /\ ocr = FALSE
    /\ engineTargets = <<>>
    /\ IF pc = "normalize"
       THEN frame \in PureFrames /\ rgb = None
       ELSE frame = NoFrame /\ rgb \in {Some(i) : i \in PureImages}
    /\ Fresh

\* bgra_to_rgb8 applied to the frame.
normalize ==
    /\ pc = "normalize"
    /\ rgb' = Some(bgra_to_rgb8(frame))
    /\ pc' = "encode"
    /\ UNCHANGED <<cliVars, engineTargets, gateVars, listVars, captureVars, frame, jpeg,
                   stepVars, result>>

\* rgb8_to_jpeg_bytes applied to the image.
encode ==
    /\ pc = "encode"
    /\ LET image == Unwrap(rgb)
       IN  \E o \in EncodeOutcomes(image.width, image.height, Len(image.data)) :
             jpeg' = rgb8_to_jpeg_bytes(image.width, image.height, image.data, o)
    /\ pc' = "encoded"
    /\ UNCHANGED <<cliVars, engineTargets, gateVars, listVars, captureVars, frame, rgb,
                   stepVars, result>>

NextPure == normalize \/ encode

SpecPure == InitPure /\ [][NextPure]_vars

\* ------------------------------------------------------------------ claims
\* The positions of the elements of one kind in a target list, and the
\* position of the n-th of them (n from 1), stated without the code's loops.
PositionsOfKind(ts, kind) == {p \in DOMAIN ts : ts[p].kind = kind}
CountKind(ts, kind) == Cardinality(PositionsOfKind(ts, kind))
NthOfKind(ts, kind, n) ==
    CHOOSE p \in PositionsOfKind(ts, kind) :
        Cardinality({q \in PositionsOfKind(ts, kind) : q <= p}) = n

ListsByLoop == command = "list" \/ (command = "list-windows" /\ platform = "linux")

\* C1: whatever the interleaving of the N Display and M Window elements of
\* the engine's list, list numbers the displays 0..N-1 and list-windows the
\* windows 0..M-1, each kind on its own and in engine order: the k-th
\* element of the kind gets index k-1 (on mac and windows as the index kept
\* for the window's id).
C1_EnumeratorDensity ==
    /\ (pc = "done" /\ enumerated /\ ListsByLoop) =>
          LET kind == KindOf(command)
              n == CountKind(engineTargets, kind)
          IN  /\ Len(listing) = n
              /\ {listing[i].index : i \in DOMAIN listing} = 0..(n - 1)
              /\ \A k \in 1..n :
                    listing[k] = [index |-> k - 1,
                                  id |-> engineTargets[NthOfKind(engineTargets, kind, k)].id]
    /\ (pc \in {"native", "done"} /\ enumerated /\ ~ListsByLoop /\ command = "list-windows") =>
          LET m == CountKind(engineTargets, "Window")
          IN  /\ DOMAIN scap_indices =
                    {engineTargets[p].id : p \in PositionsOfKind(engineTargets, "Window")}
              /\ {scap_indices[id] : id \in DOMAIN scap_indices} = 0..(m - 1)
              /\ \A k \in 1..m :
                    scap_indices[engineTargets[NthOfKind(engineTargets, "Window", k)].id] = k - 1

\* list has printed two displays of a list in which a window stands between
\* them.
C1_Witness ==
    /\ pc = "done" /\ command = "list"
    /\ Len(listing) = 2
    /\ Len(engineTargets) = 3
    /\ engineTargets[2].kind = "Window"

\* C2: when a capture command that started the engine has ended, by
\* whatever path, the engine is no longer running.
C2_EngineStoppedOnEveryExit ==
    (pc = "done" /\ command \in CaptureCommands) => ~engineRunning

\* C3: a capture command waiting for a frame from an engine that never
\* delivers one is not stuck: a step (the timeout's) is still possible.
C3_WaitIsBounded ==
    (pc = "get_next_frame" /\ ~engineDelivers) => ENABLED Next

\* C4: in every command, get_all_targets is called only after is_supported
\* and has_permission were both checked and both returned true.
C4_EnumerationGated ==
    enumerated => (supported = "yes" /\ permitted = "yes")

\* C5: in a capture command that has enumerated the targets, an index that
\* is not below the number of targets of the kind is fatal: the command ends
\* by exit(1), no target is resolved (the index is not clamped) and no
\* capturer is built or started; an index below it resolves to the element
\* of the kind at that index in engine order.
C5_IndexOutOfRangeFatal ==
    (command \in CaptureCommands /\ enumerated) =>
        LET kind == KindOf(command)
            n == CountKind(engineTargets, kind)
        IN  /\ index >= n =>
                /\ pc \in {"resolve", "done"}
                /\ target = None
                /\ ~capturerBuilt
                /\ ~engineRunning
                /\ pc = "done" => (result = "exit1" /\ ExitStatus(result) # 0)
            /\ (index < n /\ pc # "resolve") =>
                target = Some(engineTargets[NthOfKind(engineTargets, kind, index + 1)])

\* A capture command has ended on an index past the last of one or more
\* targets of its kind.
C5_Witness ==
    /\ pc = "done" /\ command \in CaptureCommands
    /\ IsSome(reported)
    /\ CountKind(engineTargets, KindOf(command)) >= 1
    /\ index >= CountKind(engineTargets, KindOf(command))

\* C6: the range an index error names ends at available_count - 1, for
\* every available_count >= 0.
C6_ReportedRangeEndsAtCountMinusOne ==
    IsSome(reported) =>
        /\ Unwrap(reported).lo = 0
        /\ Unwrap(reported).hi = CountKind(engineTargets, KindOf(command)) - 1

\* C7: for a BGRA buffer whose length is a multiple of 4, bgra_to_rgb8 gives
\* 3/4 as many bytes, and for each pixel i the bytes R, G, B: output 3i is
\* input 4i+2, output 3i+1 is input 4i+1, output 3i+2 is input 4i.
C7_NormalizeExact ==
    (frame.tag = "BGRA" /\ IsSome(rgb) /\ Len(frame.data) % 4 = 0) =>
        LET in == frame.data
            out == Unwrap(rgb).data
        IN  /\ Len(out) * 4 = Len(in) * 3
            /\ \A i \in 0..((Len(in) \div 4) - 1) :
                  /\ out[3 * i + 1] = in[4 * i + 3]
                  /\ out[3 * i + 2] = in[4 * i + 2]
                  /\ out[3 * i + 3] = in[4 * i + 1]

\* Two pixels were converted, the first with B and R different.
C7_Witness ==
    /\ frame.tag = "BGRA" /\ IsSome(rgb)
    /\ Len(frame.data) = 8
    /\ frame.data[1] # frame.data[3]

\* C8: for a BGRA buffer whose length is not a multiple of 4 the normalizer
\* produces no RGB output.
C8_RaggedBufferRejected ==
    (frame.tag = "BGRA" /\ Len(frame.data) % 4 # 0) => rgb = None

\* C9: every image the normalizer produces has width*height*3 bytes.
C9_CanonicalLength ==
    (frame.tag = "BGRA" /\ IsSome(rgb)) =>
        Len(Unwrap(rgb).data) = Unwrap(rgb).width * Unwrap(rgb).height * 3

\* C10: the encoder's result for an image whose buffer is not exactly
\* width*height*3 bytes long, shorter or longer, is an error.
C10_EncodeRejectsMismatch ==
    (IsSome(rgb) /\ jpeg.status # "None") =>
        LET image == Unwrap(rgb)
        IN  Len(image.data) # image.width * image.height * 3 => jpeg.status = "Err"

\* The ids of the windows the engine indexed in this listing, and the index
\* the enumeration gives a window id, stated from the engine's list.
IndexedWindowIds ==
    IF enumerated
    THEN {engineTargets[p].id : p \in PositionsOfKind(engineTargets, "Window")}
    ELSE {}
EnumeratedIndexOf(id) ==
    Cardinality({q \in PositionsOfKind(engineTargets, "Window") :
                    engineTargets[q].id # id /\
                    q < (CHOOSE p \in PositionsOfKind(engineTargets, "Window") :
                            engineTargets[p].id = id)})
RowsWithIndex == {i \in DOMAIN rows : IsSome(rows[i].idx)}

\* C11: in the listing of the mac and windows backends, with K the number
\* of native ids that the rows and the engine's indexed windows share,
\* exactly K rows carry an index, which is the index the enumeration gave
\* that id; every other row carries the "not capturable" marker; and no
\* native id is in two rows.
C11_JoinCorrect ==
    (command = "list-windows" /\ platform # "linux") =>
        LET row_ids == {rows[i].id : i \in DOMAIN rows}
            K == Cardinality(row_ids \cap IndexedWindowIds)
        IN  /\ Cardinality(RowsWithIndex) = K
            /\ \A i \in DOMAIN rows :
                  IF rows[i].id \in IndexedWindowIds
                  THEN rows[i].idx = Some(EnumeratedIndexOf(rows[i].id))
                  ELSE rows[i].idx = None
            /\ \A i, j \in DOMAIN rows : rows[i].id = rows[j].id => i = j

\* A listing has ended with two rows, one with an index and one with the
\* marker.
C11_Witness ==
    /\ pc = "done" /\ command = "list-windows" /\ platform # "linux"
    /\ Len(rows) = 2
    /\ Cardinality(RowsWithIndex) = 1

\* C12: a failure of an optional step is isolated. When the analysis has
\* failed, OCR still runs if it was asked for; when either has failed, the
\* other's result stands, the file that was saved is still the encoded
\* image under its name, and the command ends Ok.
C12_OptionalFailuresIsolated ==
    (command \in CaptureCommands /\ (analysis = "Err" \/ ocr_result = "Err")) =>
        /\ pc = "done" => result = "Ok"
        /\ (pc \in {"finish", "done"} /\ ocr) => ocr_result # "none"
        /\ analyze => analysis # "none"
        /\ save_result = "Ok" =>
              saved = Some([name |-> Unwrap(filename), bytes |-> jpeg])

\* A capture that saved its file has ended after a failed analysis and a
\* successful OCR.
C12_Witness ==
    /\ pc = "done" /\ command \in CaptureCommands
    /\ analysis = "Err" /\ ocr_result = "Ok"
    /\ IsSome(saved)

\* C13: a capture command on a host that does not support capture, or
\* without permission, ends in an error, and has not enumerated the
\* targets, built a capturer or started the engine.
C13_GateFailuresAreErrors ==
    (pc = "done" /\ command \in CaptureCommands /\ (supported = "no" \/ permitted = "no")) =>
        /\ result \in {"Err", "exit1"}
        /\ ~enumerated /\ ~capturerBuilt /\ ~engineRunning

\* C14: a capture command that was handed an audio frame ends in an error,
\* with no image, file, analysis or OCR output.
C14_AudioFrameIsAnError ==
    (pc = "done" /\ frame.tag = "Audio") =>
        /\ result = "Err"
        /\ rgb = None /\ saved = None /\ analysis = "none" /\ ocr_result = "none"

\* C15: a capture command that was handed a video frame of a variant other
\* than BGRA does not end Ok without a canonical image.
C15_OtherVariantsNotSkipped ==
    (pc = "done" /\ frame.tag \in OtherVideoTags) => (IsSome(rgb) \/ result # "Ok")

\* C16: the name of the file a capture command writes ends with the
\* extension of the container format of the bytes written.
C16_ExtensionMatchesFormat ==
    IsSome(saved) => EndsWith(Unwrap(saved).name, ContainerExtension)

\* C17: a capture command without --output that converted and encoded a
\* BGRA frame and ended Ok has written an image file.
C17_DefaultNameFileWritten ==
    (pc = "done" /\ command \in CaptureCommands /\ output_filename = None
        /\ frame.tag = "BGRA" /\ jpeg.status = "Ok" /\ result = "Ok") => IsSome(saved)

\* The relevance filter as stated for every backend: a title, or an owner
\* name that is not the placeholder together with a width or height over 50.
Relevant(r) ==
    \/ r.title # ""
    \/ /\ r.owner # "" /\ r.owner # "Unknown"
       /\ (r.size[1] > 50 \/ r.size[2] > 50)

\* C18: on every backend that walks native records, the record the walk is
\* at has a row (the last one) exactly when it passes the relevance filter.
C18_RelevanceFilter ==
    IsSome(native) =>
        (Relevant(Unwrap(native)) <=>
            (rows # <<>> /\ rows[Len(rows)].id = Unwrap(native).id))

\* C19: under one engine snapshot the listings and the capture commands
\* agree on indices. Every index a listing shows next to an id (list, the
\* linux list-windows, and the rows of the mac and windows list-windows) is
\* the index at which the capture command's filter finds the target with
\* that id; and the target a capture command resolved from its index is the
\* one the listings' loops number with that index.
C19_ListingAndCaptureAgree ==
    /\ \A k \in DOMAIN listing :
          LET of_kind == KindTargets(engineTargets, KindOf(command))
          IN  /\ ~OutOfRange(listing[k].index, Len(of_kind))
              /\ of_kind[listing[k].index + 1].id = listing[k].id
    /\ \A i \in RowsWithIndex :
          LET windows == KindTargets(engineTargets, "Window")
          IN  /\ ~OutOfRange(Unwrap(rows[i].idx), Len(windows))
              /\ windows[Unwrap(rows[i].idx) + 1].id = rows[i].id
    /\ (command \in CaptureCommands /\ IsSome(target)) =>
          /\ \E line \in {l \in [index : 0..MaxTargets, id : {IdAt(p) : p \in 1..MaxTargets}] :
                             \E k \in 1..Len(ListLoop(engineTargets, KindOf(command), 0)) :
                                ListLoop(engineTargets, KindOf(command), 0)[k] = l} :
                line.index = index /\ line.id = Unwrap(target).id
          /\ command = "capture-window" =>
                LET map == ScapIndicesLoop(engineTargets, 0, <<>>)
                IN  /\ Unwrap(target).id \in DOMAIN map
                    /\ map[Unwrap(target).id] = index

\* The mac or windows list-windows has shown index 0 next to a window that
\* follows a display in the engine's list.
C19_Witness ==
    /\ pc = "done" /\ command = "list-windows" /\ platform # "linux"
    /\ RowsWithIndex # {}
    /\ Len(engineTargets) >= 2
    /\ engineTargets[1].kind = "Display"

=============================================================================
